---- MODULE Spec2Model ----
(***************************************************************************)
(* A model of the Rust binding of the CaDiCaL incremental SAT solver       *)
(* (src/src/lib.rs): the Solver handle (ptr, state, cb), its operations,   *)
(* the Timeout strategy, and the engine behind the ccadical_* entry        *)
(* points.  The engine itself is not part of lib.rs; it is modelled from   *)
(* its documented ABI (init, release, add, assume, solve, val, failed,     *)
(* set_terminate).                                                         *)
(***************************************************************************)
EXTENDS Integers, Sequences, FiniteSets, TLC

(* ------------------------------ bounds --------------------------------- *)
MaxVar == 2
MaxClauseLen == 2
MaxClauses == 1
MaxAssume == 2
MaxPolls == 2
MaxTime == 1
MaxTimeout == 1
MaxAddr == 2

(* ------------------------- program constants --------------------------- *)
SAT == 10
UNSAT == 20
I32_MIN == -2147483647 - 1

(* ------------------------------ domains -------------------------------- *)
Handles == {1, 2}
Ptrs == {1, 2}
Null == 0
Vars == 1..MaxVar
Lits == {l \in (-MaxVar)..MaxVar : l # 0}
\* what a caller can hand over as an i32 literal: valid ones, 0 and i32::MIN
AnyLits == Lits \cup {0, I32_MIN}
Addrs == 1..MaxAddr
Timeouts == 0..MaxTimeout
\* status codes the engine hands back when it did not conclude
UnknownCodes == {0, 30}

\* Option<T>
None == <<>>
Some(x) == <<x>>

Abs(x) == IF x < 0 THEN -x ELSE x
Range(s) == {s[i] : i \in 1..Len(s)}

VARIABLES
    debug_assertions, \* build profile: are debug_assert! checks compiled in
    now,              \* the monotonic clock behind Instant::now()
    pc,               \* per handle: where its owner is
    ptr,              \* Solver.ptr
    state,            \* Solver.state : Option<bool>
    cb,               \* Solver.cb : Option<Box<C>>, the box given by its address
    heap,             \* contents of the strategy storage at each address
    allocated,        \* addresses of the boxes that are live
    eng_live,         \* per native pointer: "unalloc", "live" or "released"
    eng_clauses,      \* per native pointer: the clauses, in order
    eng_open,         \* per native pointer: literals of the clause not yet terminated
    eng_assumptions,  \* per native pointer: assumptions for the next solve
    eng_term,         \* per native pointer: registered (data, cb) of set_terminate
    eng_state,        \* per native pointer: "steady", "sat" or "unsat"
    eng_model,        \* per native pointer: the model of the last satisfiable solve
    eng_failed,       \* per native pointer: failed assumptions of the last unsatisfiable solve
    eng_stop,         \* per native pointer: a poll of the running solve answered stop
    log,              \* per handle: what the solve call in flight did so far, in order
    ret,              \* per handle: the last completed operation and what it returned
    lastStatusOp,     \* per handle: the last operation that assigned Solver.state
    installed,        \* per handle: the budget of the strategy last handed to set_callbacks
    passed,           \* per handle: the clauses its add_clause calls were given, in order
    baseline,         \* per handle: when the installed strategy was last notified, or else made
    releases,         \* per handle: number of ccadical_release calls on its pointer
    useAfterRelease,  \* an entry point was called on a released or unallocated pointer
    danglingPoll      \* the trampoline dereferenced freed strategy storage

bindingVars == <<pc, ptr, state, cb, heap, allocated>>
engineVars == <<eng_live, eng_clauses, eng_open, eng_assumptions, eng_term,
                eng_state, eng_model, eng_failed, eng_stop>>
historyVars == <<log, ret, lastStatusOp, installed, baseline, passed, releases,
                 useAfterRelease, danglingPoll>>
vars == <<debug_assertions, now, bindingVars, engineVars, historyVars>>

(* ---------------------- the engine: satisfiability --------------------- *)
\* Modelled from the ABI: solve decides the clauses under the assumptions.
Assignments == [Vars -> {"T", "F"}]
PartialAssignments == [Vars -> {"T", "F", "X"}]
NoModel == [v \in Vars |-> "X"]

LitTrue(a, l) == a[Abs(l)] = (IF l > 0 THEN "T" ELSE "F")

SatClause(a, c) == \E i \in 1..Len(c) : LitTrue(a, c[i])

Satisfies(a, cls, ass) ==
    /\ \A i \in 1..Len(cls) : SatClause(a, cls[i])
    /\ \A l \in ass : LitTrue(a, l)

Satisfiable(cls, ass) == \E a \in Assignments : Satisfies(a, cls, ass)

Completions(m) == {a \in Assignments : \A v \in Vars : m[v] # "X" => a[v] = m[v]}

\* the models the engine may report: a variable is left open ("X") only when
\* the formula is satisfied regardless of its value
Models(cls, ass) ==
    {m \in PartialAssignments : \A a \in Completions(m) : Satisfies(a, cls, ass)}

\* the sets of failed assumptions the engine may report: a minimal subset of
\* the assumptions that is unsatisfiable together with the clauses
Cores(cls, ass) ==
    {F \in SUBSET ass :
        /\ ~Satisfiable(cls, F)
        /\ \A l \in F : Satisfiable(cls, F \ {l})}

\* val(handle, lit): the literal itself, its negation, or 0 when open
EngineVal(m, lit) ==
    IF m[Abs(lit)] = "X" THEN 0
    ELSE IF LitTrue(m, lit) THEN lit ELSE -lit

\* failed(handle, lit): 0 or 1
EngineFailed(F, lit) == IF lit \in F THEN 1 ELSE 0

(* ------------------- the engine: entry points --------------------------- *)
EngineFresh(p) ==
    /\ eng_live' = [eng_live EXCEPT ![p] = "live"]
    /\ eng_clauses' = [eng_clauses EXCEPT ![p] = <<>>]
    /\ eng_open' = [eng_open EXCEPT ![p] = <<>>]
    /\ eng_assumptions' = [eng_assumptions EXCEPT ![p] = <<>>]
    /\ eng_term' = [eng_term EXCEPT ![p] = [data |-> Null, cb |-> FALSE]]
    /\ eng_state' = [eng_state EXCEPT ![p] = "steady"]
    /\ eng_model' = [eng_model EXCEPT ![p] = NoModel]
    /\ eng_failed' = [eng_failed EXCEPT ![p] = {}]
    /\ eng_stop' = [eng_stop EXCEPT ![p] = FALSE]

\* every entry point taking the handle: is the pointer a live instance
Touch(p) == useAfterRelease' = (useAfterRelease \/ eng_live[p] # "live")

\* the formula changed: the engine leaves its sat/unsat state
EngineInvalidate(p) ==
    /\ eng_state' = [eng_state EXCEPT ![p] = "steady"]
    /\ eng_model' = [eng_model EXCEPT ![p] = NoModel]
    /\ eng_failed' = [eng_failed EXCEPT ![p] = {}]

ccadical_release(p) ==
    /\ Touch(p)
    /\ eng_live' = [eng_live EXCEPT ![p] = "released"]
    /\ UNCHANGED <<eng_clauses, eng_open, eng_assumptions, eng_term, eng_state,
                   eng_model, eng_failed, eng_stop>>

\* add(handle, lit): 0 terminates the clause under construction
ccadical_add(p, lit) ==
    /\ Touch(p)
    /\ IF lit = 0
       THEN /\ eng_clauses' = [eng_clauses EXCEPT ![p] = Append(@, eng_open[p])]
            /\ eng_open' = [eng_open EXCEPT ![p] = <<>>]
       ELSE /\ eng_open' = [eng_open EXCEPT ![p] = Append(@, lit)]
            /\ UNCHANGED eng_clauses
    /\ EngineInvalidate(p)
    /\ UNCHANGED <<eng_live, eng_assumptions, eng_term, eng_stop>>

ccadical_assume(p, lit) ==
    /\ Touch(p)
    /\ eng_assumptions' = [eng_assumptions EXCEPT ![p] = Append(@, lit)]
    /\ EngineInvalidate(p)
    /\ UNCHANGED <<eng_live, eng_clauses, eng_open, eng_term, eng_stop>>

ccadical_set_terminate(p, data, f) ==
    /\ Touch(p)
    /\ eng_term' = [eng_term EXCEPT ![p] = [data |-> data, cb |-> f]]
    /\ UNCHANGED <<eng_live, eng_clauses, eng_open, eng_assumptions, eng_state,
                   eng_model, eng_failed, eng_stop>>

\* solve(handle), entered: the blocking call starts its search
ccadical_solve_enter(p) ==
    /\ Touch(p)
    /\ eng_stop' = [eng_stop EXCEPT ![p] = FALSE]
    /\ EngineInvalidate(p)
    /\ UNCHANGED <<eng_live, eng_clauses, eng_open, eng_assumptions, eng_term>>

\* solve(handle), returning status code r; the assumptions are used up
ccadical_solve_return(p, r) ==
    /\ IF eng_stop[p]
       THEN /\ r \in UnknownCodes
            /\ EngineInvalidate(p)
       ELSE IF Satisfiable(eng_clauses[p], Range(eng_assumptions[p]))
       THEN /\ r = SAT
            /\ eng_state' = [eng_state EXCEPT ![p] = "sat"]
            /\ \E m \in Models(eng_clauses[p], Range(eng_assumptions[p])) :
                  eng_model' = [eng_model EXCEPT ![p] = m]
            /\ eng_failed' = [eng_failed EXCEPT ![p] = {}]
       ELSE /\ r = UNSAT
            /\ eng_state' = [eng_state EXCEPT ![p] = "unsat"]
            /\ eng_model' = [eng_model EXCEPT ![p] = NoModel]
            /\ \E F \in Cores(eng_clauses[p], Range(eng_assumptions[p])) :
                  eng_failed' = [eng_failed EXCEPT ![p] = F]
    /\ eng_assumptions' = [eng_assumptions EXCEPT ![p] = <<>>]
    /\ eng_stop' = [eng_stop EXCEPT ![p] = FALSE]
    /\ UNCHANGED <<eng_live, eng_clauses, eng_open, eng_term>>

StatusCodes == {SAT, UNSAT} \cup UnknownCodes

(* ------------------------- the Timeout strategy ------------------------- *)
\* Timeout::new
TimeoutNew(t) == [started |-> now, timeout |-> t]

\* Callbacks::started for Timeout
TimeoutStarted(c) == [c EXCEPT !.started = now]

\* Callbacks::terminate for Timeout, had it waited until the budget is exceeded
TimeoutTerminateStrict(c) == now - c.started > c.timeout

\* Callbacks::terminate for Timeout
TimeoutTerminate(c) == now - c.started >= c.timeout

\* what freed storage holds; a read through a dangling pointer is not bound by it
Poison == [started |-> 0, timeout |-> 0]

(* --------------------------- pure parts of Solver ----------------------- *)
\* debug_assert!(lit != 0 && lit != i32::MIN)
ValidLit(lit) == lit # 0 /\ lit # I32_MIN

\* debug_assert!(c): does the check let the call through
DebugAssert(c) == debug_assertions => c

\* value, had it compared with the literal where it compares with its negation
NegForgotten(x) == x

\* i32 negation as the release build computes it
Neg32(x) == IF x = I32_MIN THEN I32_MIN ELSE -x

\* solve, had it taken 0 for the only inconclusive code
SolveStateZeroOnly(r) ==
    IF r = SAT THEN Some(TRUE)
    ELSE IF r = 0 THEN None
    ELSE Some(FALSE)

\* solve, had it taken every code but 10 for unsatisfiable
SolveStateSatOrUnsat(r) == IF r = SAT THEN Some(TRUE) ELSE Some(FALSE)

\* solve: the status code as Option<bool>
SolveState(r) ==
    IF r = SAT THEN Some(TRUE)
    ELSE IF r = UNSAT THEN Some(FALSE)
    ELSE None

\* value, had it mixed up the two polarities
ValueResultSwapped(val, lit) ==
    IF val = lit THEN Some(FALSE)
    ELSE IF val = Neg32(lit) THEN Some(TRUE)
    ELSE None

\* value: the engine's answer as Option<bool>
ValueResult(val, lit) ==
    IF val = lit THEN Some(TRUE)
    ELSE IF val = Neg32(lit) THEN Some(FALSE)
    ELSE None

\* failed: the engine's answer as bool
FailedResult(val) == val = 1

\* value, had it asked only for some concluded result
ValuePreAnyResult(h) == state[h] # None

\* debug_assert!(self.state == Some(true))
ValuePre(h) == state[h] = Some(TRUE)

\* failed, had it only ruled out a satisfiable result
FailedPreNotSat(h) == state[h] # Some(TRUE)

\* debug_assert!(self.state == Some(false))
FailedPre(h) == state[h] = Some(FALSE)

\* add_clause, had it left the state alone
AddClauseKeepsState(h) == state[h]

\* add_clause: self.state = None
AddClauseState(h) == None

\* terminate_cb: the strategy behind the context pointer, asked whether to stop
terminate_cb(data) == IF TimeoutTerminate(heap[data]) THEN 1 ELSE 0

\* the record of a completed call: what it returned (val), what the engine's
\* entry point answered if it called one that answers (r: the status code of
\* ccadical_solve, the answer of ccadical_val or ccadical_failed), and
\* Solver.state as the call found it (before); a returned string goes to str
Returned(op, val, r, before) ==
    [op |-> op, ok |-> TRUE, val |-> val, r |-> r, before |-> before, str |-> ""]
Panicked(op) ==
    [op |-> op, ok |-> FALSE, val |-> None, r |-> 0, before |-> None, str |-> ""]
\* while an operation is in flight nothing has been returned yet
Calling ==
    [op |-> "call", ok |-> TRUE, val |-> None, r |-> 0, before |-> None, str |-> ""]

StatusOp(r) ==
    IF r = SAT THEN "solve_sat" ELSE IF r = UNSAT THEN "solve_unsat" ELSE "solve_unknown"

Count(s, name) == Cardinality({i \in 1..Len(s) : s[i][1] = name})

\* the literals a solve call submitted as assumptions, as logged
Assumed(s) == {s[i][2] : i \in {j \in 1..Len(s) : s[j][1] = "assume"}}
AssumedSeq(s) == [i \in 1..Count(s, "assume") |-> s[i][2]]

\* a failed debug_assert!: the call unwinds, the handle is only dropped afterwards
Panic(h, op) ==
    /\ pc' = [pc EXCEPT ![h] = "panicked"]
    /\ ret' = [ret EXCEPT ![h] = Panicked(op)]
    /\ log' = [log EXCEPT ![h] = <<>>]
    /\ UNCHANGED <<debug_assertions, now, ptr, state, cb, heap, allocated, engineVars,
                   lastStatusOp, installed, baseline, passed, releases,
                   useAfterRelease, danglingPoll>>

\* the engine rejects a call outside its contract: the process is gone
Abort ==
    /\ pc' = [h \in Handles |-> IF pc[h] \in {"unborn", "dropped"} THEN pc[h] ELSE "aborted"]
    /\ UNCHANGED <<debug_assertions, now, ptr, state, cb, heap, allocated, engineVars,
                   historyVars>>

(* ------------------------------ Solver ---------------------------------- *)
\* Solver::new, had it handed every handle one instance kept for the process
InitShared(h) == {1}

\* Solver::new: let ptr = ccadical_init(), an instance of its own for the handle
InitOwn(h) == {p \in Ptrs : eng_live[p] # "live"}

\* Solver::new
New(h) ==
    /\ pc[h] = "unborn"
    /\ \E p \in InitOwn(h) :
          /\ EngineFresh(p)
          /\ ptr' = [ptr EXCEPT ![h] = p]
    /\ state' = [state EXCEPT ![h] = None]
    /\ cb' = [cb EXCEPT ![h] = None]
    /\ pc' = [pc EXCEPT ![h] = "idle"]
    /\ ret' = [ret EXCEPT ![h] = Returned("new", None, 0, None)]
    /\ lastStatusOp' = [lastStatusOp EXCEPT ![h] = "new"]
    /\ installed' = [installed EXCEPT ![h] = None]
    /\ baseline' = [baseline EXCEPT ![h] = 0]
    /\ passed' = [passed EXCEPT ![h] = <<>>]
    /\ log' = [log EXCEPT ![h] = <<>>]
    /\ releases' = [releases EXCEPT ![h] = 0]
    /\ UNCHANGED <<debug_assertions, now, heap, allocated, useAfterRelease, danglingPoll>>

\* the literals the add_clause call in flight has handed to the engine, as logged
Added(s) == [i \in 1..Count(s, "add") |-> s[i][2]]

\* add_clause, one turn of the loop: the iterator yields lit
add_clause_next(h, lit) ==
    /\ pc[h] \in {"idle", "add_loop"}
    /\ Count(log[h], "add") < MaxClauseLen
    /\ Len(passed[h]) < MaxClauses
    /\ IF ~DebugAssert(ValidLit(lit)) THEN Panic(h, "add_clause")
       ELSE IF lit = I32_MIN THEN Abort
       ELSE /\ ccadical_add(ptr[h], lit)
            /\ pc' = [pc EXCEPT ![h] = "add_loop"]
            /\ ret' = [ret EXCEPT ![h] = Calling]
            /\ log' = [log EXCEPT ![h] = Append(log[h], <<"add", lit>>)]
            /\ UNCHANGED <<debug_assertions, now, ptr, state, cb, heap, allocated,
                           lastStatusOp, installed, baseline, passed, releases,
                           danglingPoll>>

\* add_clause, had it left the clause open
SubmitNoTerminator(h) == UNCHANGED <<engineVars, useAfterRelease>>

\* add_clause: ccadical_add(self.ptr, 0)
SubmitTerminator(h) == ccadical_add(ptr[h], 0)

\* add_clause, the iterator is exhausted: the terminator, then the state
add_clause_end(h) ==
    /\ pc[h] \in {"idle", "add_loop"}
    /\ Len(passed[h]) < MaxClauses
    /\ SubmitTerminator(h)
    /\ state' = [state EXCEPT ![h] = AddClauseState(h)]
    /\ pc' = [pc EXCEPT ![h] = "idle"]
    /\ ret' = [ret EXCEPT ![h] = Returned("add_clause", None, 0, state[h])]
    /\ lastStatusOp' = [lastStatusOp EXCEPT ![h] = "add_clause"]
    /\ passed' = [passed EXCEPT ![h] = Append(@, Added(log[h]))]
    /\ log' = [log EXCEPT ![h] = <<>>]
    /\ UNCHANGED <<debug_assertions, now, ptr, cb, heap, allocated, installed,
                   baseline, releases, danglingPoll>>

\* solve_with, had it handed the literal to ccadical_add
SubmitAsClauseLiteral(h, lit) == ccadical_add(ptr[h], lit)

\* solve_with: ccadical_assume(self.ptr, lit)
SubmitAssumption(h, lit) == ccadical_assume(ptr[h], lit)

\* solve_with, one turn of the loop: the iterator yields lit
solve_with_next(h, lit) ==
    /\ pc[h] \in {"idle", "assume_loop"}
    /\ Count(log[h], "assume") < MaxAssume
    /\ IF ~DebugAssert(ValidLit(lit)) THEN Panic(h, "solve")
       ELSE IF ~ValidLit(lit) THEN Abort
       ELSE /\ SubmitAssumption(h, lit)
            /\ pc' = [pc EXCEPT ![h] = "assume_loop"]
            /\ ret' = [ret EXCEPT ![h] = Calling]
            /\ log' = [log EXCEPT ![h] = Append(log[h], <<"assume", lit>>)]
            /\ UNCHANGED <<debug_assertions, now, ptr, state, cb, heap, allocated,
                           lastStatusOp, installed, baseline, passed, releases, danglingPoll>>

\* solve, had it gone straight to the engine
NotifyNobody(h) == UNCHANGED <<heap, log, baseline>>

\* solve: if let Some(cb) = &mut self.cb { cb.as_mut().started(); }
NotifyStarted(h) ==
    IF cb[h] # None
    THEN /\ heap' = [heap EXCEPT ![cb[h][1]] = TimeoutStarted(@)]
         /\ log' = [log EXCEPT ![h] = Append(log[h], <<"started", 0>>)]
         /\ baseline' = [baseline EXCEPT ![h] = now]
    ELSE UNCHANGED <<heap, log, baseline>>

\* solve, up to the engine call: the strategy, if any, is told that solving starts
solve_started(h) ==
    /\ pc[h] \in {"idle", "assume_loop"}
    /\ NotifyStarted(h)
    /\ pc' = [pc EXCEPT ![h] = "solve_call"]
    /\ ret' = [ret EXCEPT ![h] = Calling]
    /\ UNCHANGED <<debug_assertions, now, ptr, state, cb, allocated, engineVars,
                   lastStatusOp, installed, passed, releases, useAfterRelease,
                   danglingPoll>>

\* solve: ccadical_solve is entered
solve_call(h) ==
    /\ pc[h] = "solve_call"
    /\ ccadical_solve_enter(ptr[h])
    /\ pc' = [pc EXCEPT ![h] = "in_engine"]
    /\ log' = [log EXCEPT ![h] = Append(@, <<"enter", 0>>)]
    /\ UNCHANGED <<debug_assertions, now, ptr, state, cb, heap, allocated, ret,
                   lastStatusOp, installed, baseline, passed, releases, danglingPoll>>

\* inside ccadical_solve: the engine calls the registered trampoline
engine_poll(h) ==
    /\ pc[h] = "in_engine"
    /\ eng_term[ptr[h]].cb
    /\ ~eng_stop[ptr[h]]
    /\ Count(log[h], "poll") < MaxPolls
    /\ LET data == eng_term[ptr[h]].data
           dangling == data \notin allocated
       IN /\ danglingPoll' = (danglingPoll \/ dangling)
          /\ \E answer \in {0, 1} :
                /\ ~dangling => answer = terminate_cb(data)
                /\ eng_stop' = [eng_stop EXCEPT ![ptr[h]] = (answer # 0)]
                /\ log' = [log EXCEPT ![h] = Append(@, <<"poll", answer>>)]
    /\ UNCHANGED <<debug_assertions, now, bindingVars, eng_live, eng_clauses, eng_open,
                   eng_assumptions, eng_term, eng_state, eng_model, eng_failed,
                   ret, lastStatusOp, installed, baseline, passed, releases,
                   useAfterRelease>>

\* solve: ccadical_solve returns r, which becomes the state and the result
solve_return(h, r) ==
    /\ pc[h] = "in_engine"
    /\ ccadical_solve_return(ptr[h], r)
    /\ state' = [state EXCEPT ![h] = SolveState(r)]
    /\ pc' = [pc EXCEPT ![h] = "idle"]
    /\ ret' = [ret EXCEPT ![h] = Returned("solve", SolveState(r), r, state[h])]
    /\ lastStatusOp' = [lastStatusOp EXCEPT ![h] = StatusOp(r)]
    /\ log' = [log EXCEPT ![h] = <<>>]
    /\ UNCHANGED <<debug_assertions, now, ptr, cb, heap, allocated, installed, baseline, passed,
                   releases, useAfterRelease, danglingPoll>>

\* ccadical_val as called by value: inside the engine's contract it answers from
\* the model; outside it the engine aborts or answers anything
ValAnswers(h, lit) ==
    IF eng_state[ptr[h]] = "sat" /\ ValidLit(lit)
    THEN {EngineVal(eng_model[ptr[h]], lit)}
    ELSE AnyLits

\* ccadical_failed as called by failed, likewise
FailedAnswers(h, lit) ==
    IF eng_state[ptr[h]] = "unsat" /\ ValidLit(lit)
    THEN {EngineFailed(eng_failed[ptr[h]], lit)}
    ELSE {0, 1, 2}

\* what value(lit) can return now
ValueOf(h, lit) == {ValueResult(val, lit) : val \in ValAnswers(h, lit)}

\* what failed(lit) can return now
FailedOf(h, lit) == {FailedResult(val) : val \in FailedAnswers(h, lit)}

\* value
value(h, lit) ==
    /\ pc[h] = "idle"
    /\ IF ~DebugAssert(ValuePre(h)) \/ ~DebugAssert(ValidLit(lit))
       THEN Panic(h, "value")
       ELSE \/ /\ ~(eng_state[ptr[h]] = "sat" /\ ValidLit(lit))
               /\ Abort
            \/ /\ \E val \in ValAnswers(h, lit) :
                     ret' = [ret EXCEPT ![h] =
                                Returned("value", ValueResult(val, lit), val, state[h])]
               /\ Touch(ptr[h])
               /\ UNCHANGED <<debug_assertions, now, bindingVars, engineVars, log,
                              lastStatusOp, installed, baseline, passed, releases,
                              danglingPoll>>

\* failed
failed(h, lit) ==
    /\ pc[h] = "idle"
    /\ IF ~DebugAssert(FailedPre(h)) \/ ~DebugAssert(ValidLit(lit))
       THEN Panic(h, "failed")
       ELSE \/ /\ ~(eng_state[ptr[h]] = "unsat" /\ ValidLit(lit))
               /\ Abort
            \/ /\ \E val \in FailedAnswers(h, lit) :
                     ret' = [ret EXCEPT ![h] =
                                Returned("failed", Some(FailedResult(val)), val, state[h])]
               /\ Touch(ptr[h])
               /\ UNCHANGED <<debug_assertions, now, bindingVars, engineVars, log,
                              lastStatusOp, installed, baseline, passed, releases,
                              danglingPoll>>

\* state
state_query(h) ==
    /\ pc[h] = "idle"
    /\ ret' = [ret EXCEPT ![h] = Returned("state", state[h], 0, state[h])]
    /\ UNCHANGED <<debug_assertions, now, bindingVars, engineVars, log, lastStatusOp,
                   installed, baseline, passed, releases, useAfterRelease, danglingPoll>>

\* ccadical_signature, and what to_str().unwrap_or("invalid") makes of it
Signature == "cadical-"

\* signature
signature(h) ==
    /\ pc[h] = "idle"
    /\ ret' = [ret EXCEPT ![h] =
                  [Returned("signature", None, 0, None) EXCEPT !.str = Signature]]
    /\ UNCHANGED <<debug_assertions, now, bindingVars, engineVars, log, lastStatusOp,
                   installed, baseline, passed, releases, useAfterRelease, danglingPoll>>

\* set_callbacks, had it taken the new strategy for a change of the formula
SetCallbacksResetsState(h) == None

\* set_callbacks: self.state is not assigned
SetCallbacksState(h) == state[h]

\* set_callbacks, had it put the replacement into a box of its own
ReplaceByNewBox(h, t) ==
    \E a \in Addrs \ allocated :
        /\ allocated' = (allocated \ {cb[h][1]}) \cup {a}
        /\ heap' = [heap EXCEPT ![cb[h][1]] = Poison, ![a] = TimeoutNew(t)]
        /\ cb' = [cb EXCEPT ![h] = Some(a)]

\* set_callbacks: *data.as_mut() = cb
ReplaceInPlace(h, t) ==
    /\ heap' = [heap EXCEPT ![cb[h][1]] = TimeoutNew(t)]
    /\ UNCHANGED <<cb, allocated>>

\* set_callbacks(Some(cb)) with a strategy installed
set_callbacks_replace(h, t) ==
    /\ pc[h] = "idle"
    /\ cb[h] # None
    /\ ReplaceInPlace(h, t)
    /\ installed' = [installed EXCEPT ![h] = Some(t)]
    /\ baseline' = [baseline EXCEPT ![h] = now]
    /\ ret' = [ret EXCEPT ![h] = Returned("set_callbacks_replace", None, 0, None)]
    /\ state' = [state EXCEPT ![h] = SetCallbacksState(h)]
    /\ UNCHANGED <<debug_assertions, now, pc, ptr, engineVars,
                   log, lastStatusOp, passed, releases, useAfterRelease,
                   danglingPoll>>

\* set_callbacks(Some(cb)) with none installed: self.cb = Some(Box::new(cb))
set_callbacks_box(h, t) ==
    /\ pc[h] = "idle"
    /\ cb[h] = None
    /\ \E a \in Addrs \ allocated :
          /\ allocated' = allocated \cup {a}
          /\ heap' = [heap EXCEPT ![a] = TimeoutNew(t)]
          /\ cb' = [cb EXCEPT ![h] = Some(a)]
    /\ installed' = [installed EXCEPT ![h] = Some(t)]
    /\ baseline' = [baseline EXCEPT ![h] = now]
    /\ pc' = [pc EXCEPT ![h] = "set_cb_register"]
    /\ ret' = [ret EXCEPT ![h] = Calling]
    /\ state' = [state EXCEPT ![h] = SetCallbacksState(h)]
    /\ UNCHANGED <<debug_assertions, now, ptr, engineVars, log, lastStatusOp,
                   passed, releases, useAfterRelease, danglingPoll>>

\* set_callbacks, had it taken the address of the strategy before boxing it
DataOfArgument(h) == CHOOSE a \in Addrs : a # cb[h][1]

\* set_callbacks: let data = data.as_mut() as *mut C as *mut c_void
DataOfBox(h) == cb[h][1]

\* ... then ccadical_set_terminate(self.ptr, data, Some(Self::terminate_cb))
set_callbacks_register(h) ==
    /\ pc[h] = "set_cb_register"
    /\ ccadical_set_terminate(ptr[h], DataOfBox(h), TRUE)
    /\ pc' = [pc EXCEPT ![h] = "idle"]
    /\ ret' = [ret EXCEPT ![h] = Returned("set_callbacks_install", None, 0, None)]
    /\ UNCHANGED <<debug_assertions, now, ptr, state, cb, heap, allocated, log,
                   lastStatusOp, installed, baseline, passed, releases, danglingPoll>>

\* dropping Option<Box<C>>: the box, if there is one, is freed
FreeBox(h) ==
    IF cb[h] # None
    THEN /\ allocated' = allocated \ {cb[h][1]}
         /\ heap' = [heap EXCEPT ![cb[h][1]] = Poison]
    ELSE UNCHANGED <<allocated, heap>>

\* set_callbacks(None): self.cb = None drops the box
set_callbacks_clear(h) ==
    /\ pc[h] = "idle"
    /\ FreeBox(h)
    /\ cb' = [cb EXCEPT ![h] = None]
    /\ installed' = [installed EXCEPT ![h] = None]
    /\ baseline' = [baseline EXCEPT ![h] = 0]
    /\ pc' = [pc EXCEPT ![h] = "set_cb_unregister"]
    /\ ret' = [ret EXCEPT ![h] = Calling]
    /\ state' = [state EXCEPT ![h] = SetCallbacksState(h)]
    /\ UNCHANGED <<debug_assertions, now, ptr, engineVars, log, lastStatusOp,
                   passed, releases, useAfterRelease, danglingPoll>>

\* set_callbacks(None), had it left the engine's registration as it was
UnregisterSkipped(h) == UNCHANGED <<engineVars, useAfterRelease>>

\* set_callbacks(None): ccadical_set_terminate(self.ptr, null, None)
Unregister(h) == ccadical_set_terminate(ptr[h], Null, FALSE)

\* ... then the engine is told to forget the trampoline
set_callbacks_unregister(h) ==
    /\ pc[h] = "set_cb_unregister"
    /\ Unregister(h)
    /\ pc' = [pc EXCEPT ![h] = "idle"]
    /\ ret' = [ret EXCEPT ![h] = Returned("set_callbacks_clear", None, 0, None)]
    /\ UNCHANGED <<debug_assertions, now, ptr, state, cb, heap, allocated, log,
                   lastStatusOp, installed, baseline, passed, releases, danglingPoll>>

\* Drop, had it forgotten the native instance
DropLeaks(h) == UNCHANGED <<engineVars, releases, useAfterRelease>>

\* Drop::drop: unsafe { ccadical_release(self.ptr) }
DropReleases(h) ==
    /\ ccadical_release(ptr[h])
    /\ releases' = [releases EXCEPT ![h] = @ + 1]

\* the handle goes out of scope, or a panic unwinds through its owner
drop(h) ==
    /\ pc[h] \in {"idle", "panicked"}
    /\ DropReleases(h)
    /\ pc' = [pc EXCEPT ![h] = "dropping"]
    /\ ret' = [ret EXCEPT ![h] = Calling]
    /\ UNCHANGED <<debug_assertions, now, ptr, state, cb, heap, allocated, log,
                   lastStatusOp, installed, baseline, passed, danglingPoll>>

\* after Drop::drop the fields are dropped: the box of the strategy is freed
drop_fields(h) ==
    /\ pc[h] = "dropping"
    /\ FreeBox(h)
    /\ cb' = [cb EXCEPT ![h] = None]
    /\ pc' = [pc EXCEPT ![h] = "dropped"]
    /\ UNCHANGED <<debug_assertions, now, ptr, state, engineVars, historyVars>>

\* time passes
Tick ==
    /\ now < MaxTime
    /\ now' = now + 1
    /\ UNCHANGED <<debug_assertions, bindingVars, engineVars, historyVars>>

(* --------------------------- one handle --------------------------------- *)
Init ==
    /\ debug_assertions \in BOOLEAN
    /\ now = 0
    /\ pc = [h \in Handles |-> IF h = 1 THEN "idle" ELSE "unborn"]
    /\ ptr = [h \in Handles |-> IF h = 1 THEN 1 ELSE Null]
    /\ state = [h \in Handles |-> None]
    /\ cb = [h \in Handles |-> None]
    /\ heap = [a \in Addrs |-> Poison]
    /\ allocated = {}
    /\ eng_live = [p \in Ptrs |-> IF p = 1 THEN "live" ELSE "unalloc"]
    /\ eng_clauses = [p \in Ptrs |-> <<>>]
    /\ eng_open = [p \in Ptrs |-> <<>>]
    /\ eng_assumptions = [p \in Ptrs |-> <<>>]
    /\ eng_term = [p \in Ptrs |-> [data |-> Null, cb |-> FALSE]]
    /\ eng_state = [p \in Ptrs |-> "steady"]
    /\ eng_model = [p \in Ptrs |-> NoModel]
    /\ eng_failed = [p \in Ptrs |-> {}]
    /\ eng_stop = [p \in Ptrs |-> FALSE]
    /\ log = [h \in Handles |-> <<>>]
    /\ ret = [h \in Handles |-> Returned("new", None, 0, None)]
    /\ lastStatusOp = [h \in Handles |-> "new"]
    /\ installed = [h \in Handles |-> None]
    /\ baseline = [h \in Handles |-> 0]
    /\ passed = [h \in Handles |-> <<>>]
    /\ releases = [h \in Handles |-> 0]
    /\ useAfterRelease = FALSE
    /\ danglingPoll = FALSE

Ops(h) ==
    \/ \E lit \in AnyLits : add_clause_next(h, lit)
    \/ add_clause_end(h)
    \/ \E lit \in AnyLits : solve_with_next(h, lit)
    \/ solve_started(h)
    \/ solve_call(h)
    \/ engine_poll(h)
    \/ \E r \in StatusCodes : solve_return(h, r)
    \/ \E lit \in AnyLits : value(h, lit)
    \/ \E lit \in AnyLits : failed(h, lit)
    \/ state_query(h)
    \/ signature(h)
    \/ \E t \in Timeouts : set_callbacks_replace(h, t)
    \/ \E t \in Timeouts : set_callbacks_box(h, t)
    \/ set_callbacks_register(h)
    \/ set_callbacks_clear(h)
    \/ set_callbacks_unregister(h)
    \/ drop(h)
    \/ drop_fields(h)

Next == Tick \/ Ops(1)

Spec == Init /\ [][Next]_vars

\* the operations that change the formula, solve or manage the strategy: a
\* handle driven without the read-only queries
BridgeOps(h) ==
    \/ \E lit \in AnyLits : add_clause_next(h, lit)
    \/ add_clause_end(h)
    \/ \E lit \in AnyLits : solve_with_next(h, lit)
    \/ solve_started(h)
    \/ solve_call(h)
    \/ engine_poll(h)
    \/ \E r \in StatusCodes : solve_return(h, r)
    \/ \E t \in Timeouts : set_callbacks_replace(h, t)
    \/ \E t \in Timeouts : set_callbacks_box(h, t)
    \/ set_callbacks_register(h)
    \/ set_callbacks_clear(h)
    \/ set_callbacks_unregister(h)
    \/ drop(h)
    \/ drop_fields(h)

BridgeNext == Tick \/ BridgeOps(1)

\* solve is one blocking call on the caller's thread: once it has notified the
\* strategy it enters the engine, and the engine's search comes to an end
FairSpec ==
    /\ Init
    /\ [][BridgeNext]_vars
    /\ \A h \in Handles :
          /\ WF_vars(solve_call(h))
          /\ WF_vars(\E r \in StatusCodes : solve_return(h, r))

(* --------------------------- two handles -------------------------------- *)
\* what the callers of the two handles hand over
PairLits == {1}
PairTimeouts == {0}

\* a handle driven by its own thread: made, given clauses, solved, given and
\* relieved of a strategy, destroyed
PairOps(h) ==
    \/ New(h)
    \/ \E lit \in PairLits : add_clause_next(h, lit)
    \/ add_clause_end(h)
    \/ solve_started(h)
    \/ solve_call(h)
    \/ engine_poll(h)
    \/ \E r \in StatusCodes : solve_return(h, r)
    \/ \E t \in PairTimeouts : set_callbacks_box(h, t)
    \/ set_callbacks_register(h)
    \/ set_callbacks_clear(h)
    \/ set_callbacks_unregister(h)
    \/ drop(h)
    \/ drop_fields(h)

PairNext == \E h \in Handles : PairOps(h)

PairSpec == Init /\ [][PairNext]_vars

(* ------------------------------ properties ------------------------------ *)
Alive(h) == pc[h] \notin {"unborn", "dropping", "dropped", "aborted"}
InSolve(h) == pc[h] \in {"solve_call", "in_engine"}

\* C1: every add_clause call that returns leaves the result status Unset, and
\* state() then reports None, whatever the status was before the call and
\* whatever the clause was
C1_AddClauseResets ==
    \A h \in Handles :
        /\ (ret[h].op = "add_clause" /\ ret[h].ok) => state[h] = None
        /\ (ret[h].op = "state" /\ lastStatusOp[h] = "add_clause") => ret[h].val = None

\* an empty clause added to a handle whose status was Satisfiable
C1_Witness ==
    /\ ret[1].op = "add_clause"
    /\ ret[1].before = Some(TRUE)
    /\ eng_clauses[1] = << <<>> >>
    /\ state[1] = None

\* C2: solve returns Satisfiable iff the engine's status code is 10,
\* Unsatisfiable iff it is 20 and Indeterminate for every other code; the
\* stored status equals the returned value, and state() reports the outcome of
\* the most recent solve as long as no clause is added
C2_SolveStatus ==
    \A h \in Handles :
        /\ (ret[h].op = "solve" /\ ret[h].ok) =>
              /\ (ret[h].val = Some(TRUE)) <=> (ret[h].r = 10)
              /\ (ret[h].val = Some(FALSE)) <=> (ret[h].r = 20)
              /\ (ret[h].r \notin {10, 20}) => ret[h].val = None
              /\ state[h] = ret[h].val
        /\ lastStatusOp[h] = "solve_sat" => state[h] = Some(TRUE)
        /\ lastStatusOp[h] = "solve_unsat" => state[h] = Some(FALSE)
        /\ lastStatusOp[h] = "solve_unknown" => state[h] = None
        /\ (ret[h].op = "state" /\ ret[h].ok) => ret[h].val = state[h]

\* a solve that the engine ended with a code other than 0, 10 and 20, on a
\* handle whose status was Unsatisfiable
C2_Witness ==
    /\ ret[1].op = "solve"
    /\ ret[1].r = 30
    /\ ret[1].before = Some(FALSE)
    /\ state[1] = None

\* C3 as stated: a Value query goes through only when the last operation that
\* set the status was a solve that returned Satisfiable, a Failed query only
\* when it was a solve that returned Unsatisfiable
C3_QueriesGated ==
    \A h \in Handles :
        /\ (ret[h].op = "value" /\ ret[h].ok) => lastStatusOp[h] = "solve_sat"
        /\ (ret[h].op = "failed" /\ ret[h].ok) => lastStatusOp[h] = "solve_unsat"

\* C3 as amended: in a build with debug assertions a Value query goes through
\* only when the last operation that set the status was a solve that returned
\* Satisfiable, a Failed query only when it was a solve that returned
\* Unsatisfiable; otherwise the query is rejected
C3_QueriesGatedInDebug == debug_assertions => C3_QueriesGated

\* a Value query rejected after add_clause
C3_Witness ==
    /\ debug_assertions
    /\ ret[1].op = "value"
    /\ ~ret[1].ok
    /\ lastStatusOp[1] = "add_clause"
    /\ eng_clauses[1] = << <<1, 2>> >>

\* C4: from the first assumption solve_with submits until its solve concludes,
\* the result status is unknown
C4_AssumeInvalidates ==
    \A h \in Handles :
        (pc[h] \in {"assume_loop", "solve_call", "in_engine"} /\ Assumed(log[h]) # {})
            => state[h] = None

\* C5: the native instance is released exactly once, at destruction; no entry
\* point is called on a pointer that is not a live instance; no two handles
\* hold the same pointer
C5_ReleasedOnce ==
    /\ \A h \in Handles :
          /\ pc[h] \in {"dropping", "dropped"} =>
                (releases[h] = 1 /\ eng_live[ptr[h]] = "released")
          /\ Alive(h) => (releases[h] = 0 /\ eng_live[ptr[h]] = "live")
          /\ releases[h] <= 1
          /\ \A g \in Handles \ {h} : ptr[g] = ptr[h] => ptr[h] = Null
    /\ ~useAfterRelease

\* a handle destroyed after it was used to solve, with a strategy installed
C5_Witness ==
    /\ pc[1] = "dropped"
    /\ releases[1] = 1
    /\ lastStatusOp[1] = "solve_unsat"
    /\ installed[1] # None

\* C6: while set_callbacks(None) runs, the strategy storage is never already
\* freed while the engine still holds the trampoline and the pointer to it
C6_UnregisterBeforeFree ==
    \A h \in Handles :
        pc[h] \in {"idle", "set_cb_register", "set_cb_unregister"} =>
            (eng_term[ptr[h]].cb => eng_term[ptr[h]].data \in allocated)

\* what the engine holds for a handle with and without a strategy
RegistrationMatches(h) ==
    IF cb[h] # None
    THEN /\ eng_term[ptr[h]] = [data |-> cb[h][1], cb |-> TRUE]
         /\ cb[h][1] \in allocated
         /\ installed[h] # None
         /\ heap[cb[h][1]].timeout = installed[h][1]
    ELSE /\ eng_term[ptr[h]] = [data |-> Null, cb |-> FALSE]
         /\ installed[h] = None

\* C7: between operations the engine's registered pair is (address of the
\* storage the handle owns, trampoline) when a strategy is installed and
\* (null, none) otherwise, and the storage holds the strategy installed last;
\* as long as a strategy stays installed neither the address of its storage
\* nor the engine's registration changes
C7_Registration ==
    /\ [](\A h \in Handles : (pc[h] = "idle" \/ InSolve(h)) => RegistrationMatches(h))
    /\ [][\A h \in Handles :
            ((pc[h] = "idle" \/ InSolve(h)) /\ cb[h] # None /\ cb'[h] # None) =>
                (cb'[h] = cb[h] /\ eng_term'[ptr[h]] = eng_term[ptr[h]])]_vars

\* a strategy replaced by one with another budget, after a solve notified the first
C7_Witness ==
    /\ ret[1].op = "set_callbacks_replace"
    /\ installed[1] = Some(1)
    /\ heap[cb[1][1]] = [started |-> 1, timeout |-> 1]
    /\ lastStatusOp[1] = "solve_unknown"
    /\ eng_term[1].data = cb[1][1]

\* C8: in every solve and solve_with call the strategy, if one is installed,
\* is notified exactly once, after all assumptions are submitted and before
\* the engine is entered or polls; without a strategy nobody is notified
C8_StartedOnce ==
    \A h \in Handles :
        /\ InSolve(h) =>
              /\ Count(log[h], "started") = (IF cb[h] # None THEN 1 ELSE 0)
              /\ \A i, j \in 1..Len(log[h]) :
                    log[h][i][1] = "started" =>
                        /\ log[h][j][1] = "assume" => j < i
                        /\ log[h][j][1] \in {"enter", "poll"} => i < j
        /\ pc[h] = "in_engine" => Count(log[h], "enter") = 1
        /\ ~InSolve(h) => Count(log[h], "started") = 0

\* a solve_with call with a strategy installed, inside the engine after a poll
C8_Witness ==
    /\ pc[1] = "in_engine"
    /\ Len(log[1]) = 5
    /\ log[1][1][1] = "assume"
    /\ log[1][2][1] = "assume"
    /\ log[1][3][1] = "started"
    /\ log[1][5][1] = "poll"

\* C9: the assumptions in force for an engine solve are exactly the literals
\* the solve_with call it belongs to submitted (none for a plain solve), none
\* are left between calls, and a concluded solve decides the clauses under
\* exactly those literals
C9_AssumptionsConsumed ==
    /\ [](\A h \in Handles :
            /\ pc[h] \in {"assume_loop", "solve_call", "in_engine"} =>
                  eng_assumptions[ptr[h]] = AssumedSeq(log[h])
            /\ pc[h] = "idle" => eng_assumptions[ptr[h]] = <<>>)
    /\ [][\A h \in Handles :
            (pc[h] = "in_engine" /\ pc'[h] = "idle" /\ ret'[h].r \in {10, 20}) =>
                ((ret'[h].r = 10) <=>
                     Satisfiable(eng_clauses[ptr[h]], Assumed(log[h])))]_vars

\* a solve found satisfiable right after a solve that contradictory
\* assumptions had made unsatisfiable
C9_Witness ==
    /\ ret[1].op = "solve"
    /\ ret[1].r = 10
    /\ ret[1].before = Some(FALSE)
    /\ eng_clauses[1] = << <<1, 2>> >>

\* C10: when solve_with(A) returns Satisfiable, value(a) is true for every a
\* in A and no clause has all its literals reported false; when it returns
\* Unsatisfiable, the clauses have no model under A and failed is true only
\* for literals of A
C10_ModelAndCore ==
    [][\A h \in Handles :
         (pc[h] = "in_engine" /\ pc'[h] = "idle") =>
            LET A == Assumed(log[h])
                cls == eng_clauses[ptr[h]]
            IN /\ ret'[h].val = Some(TRUE) =>
                     /\ \A a \in A : ValueOf(h, a)' = {Some(TRUE)}
                     /\ \A i \in 1..Len(cls) : \E j \in 1..Len(cls[i]) :
                           Some(FALSE) \notin ValueOf(h, cls[i][j])'
               /\ ret'[h].val = Some(FALSE) =>
                     /\ ~Satisfiable(cls, A)
                     /\ \A l \in Lits : (TRUE \in FailedOf(h, l)') => l \in A]_vars

\* clause {1,2} found unsatisfiable under -1 and -2, both reported failed
C10_Witness ==
    /\ ret[1].op = "solve"
    /\ ret[1].val = Some(FALSE)
    /\ eng_clauses[1] = << <<1, 2>> >>
    /\ FailedOf(1, -1) = {TRUE}
    /\ FailedOf(1, -2) = {TRUE}

\* C11: for every valid literal lit and every answer v of ccadical_val,
\* value(lit) returns true iff v = lit, false iff v = -lit and unconstrained
\* for every other v; failed(lit) returns true iff ccadical_failed answers 1
C11_AnswerMapping ==
    [][\A h \in Handles : \A lit \in Lits :
         /\ (ret'[h].op = "value" /\ pc'[h] = "idle" /\ value(h, lit)) =>
               /\ ret'[h].val = Some(TRUE) <=> ret'[h].r = lit
               /\ ret'[h].val = Some(FALSE) <=> ret'[h].r = -lit
               /\ ret'[h].r \notin {lit, -lit} => ret'[h].val = None
         /\ (ret'[h].op = "failed" /\ pc'[h] = "idle" /\ failed(h, lit)) =>
               (ret'[h].val = Some(TRUE) <=> ret'[h].r = 1)]_vars

\* value returned unconstrained for an answer that is neither the literal nor
\* its negation nor 0
C11_Witness ==
    /\ ret[1].op = "value"
    /\ ret[1].ok
    /\ ret[1].r = I32_MIN
    /\ ret[1].val = None
    /\ pc[1] = "idle"

\* the time the clock shows since the strategy of h was last notified, or made
Elapsed(h) == now - baseline[h]

\* C12: should-stop answers true exactly when the time elapsed since the most
\* recent started notification (or since construction if there was none) has
\* reached the budget, both as the answer the strategy would give now and as
\* the answer every poll of the engine gets; with a zero budget the first poll
\* answers true; an answer of true stays true until the next notification
C12_TimeoutStops ==
    /\ [](\A h \in Handles :
            (cb[h] # None /\ cb[h][1] \in allocated) =>
                (terminate_cb(cb[h][1]) = 1 <=> Elapsed(h) >= installed[h][1]))
    /\ [][\A h \in Handles :
            (pc[h] = "in_engine" /\ pc'[h] = "in_engine"
                /\ Len(log'[h]) = Len(log[h]) + 1) =>
               LET answer == log'[h][Len(log'[h])][2]
               IN /\ answer = 1 <=> Elapsed(h) >= installed[h][1]
                  /\ installed[h] = Some(0) => answer = 1]_vars
    /\ [][\A h \in Handles :
            (cb[h] # None /\ cb'[h] = cb[h] /\ cb[h][1] \in allocated'
                /\ baseline'[h] = baseline[h] /\ installed'[h] = installed[h]
                /\ terminate_cb(cb[h][1]) = 1) =>
               terminate_cb(cb[h][1])' = 1]_vars

\* a strategy with budget 1 polled twice in one solve: no at 0 elapsed, then
\* yes once the clock has moved on by 1
C12_Witness ==
    /\ pc[1] = "in_engine"
    /\ installed[1] = Some(1)
    /\ log[1] = << <<"started", 0>>, <<"enter", 0>>, <<"poll", 0>>, <<"poll", 1>> >>
    /\ Elapsed(1) = 1

\* the answers the polls of a solve call got, in order
Polls(s) == [i \in 1..Count(s, "poll") |->
                s[CHOOSE j \in 1..Len(s) :
                      s[j][1] = "poll" /\ Cardinality({k \in 1..j : s[k][1] = "poll"}) = i][2]]

FirstPollStops(s) == Count(s, "poll") > 0 /\ Polls(s)[1] # 0

\* C13: a solve whose strategy answers stop on its first poll, as a timeout
\* of zero duration does on any poll, returns Indeterminate and leaves the
\* status None, whatever the status was before; state() reports None for as
\* long as such a solve was the last to set the status
C13_StopGivesIndeterminate ==
    /\ [][\A h \in Handles :
            (pc[h] = "in_engine" /\ pc'[h] = "idle"
                /\ (FirstPollStops(log[h])
                       \/ (installed[h] = Some(0) /\ Count(log[h], "poll") > 0))) =>
               /\ ret'[h].op = "solve"
               /\ ret'[h].val = None
               /\ state'[h] = None]_vars
    /\ [](\A h \in Handles :
            (ret[h].op = "state" /\ lastStatusOp[h] = "solve_unknown") =>
                ret[h].val = None)

\* a solve cancelled by a timeout of zero duration on a handle whose previous
\* solve had found the same clause satisfiable
C13_Witness ==
    /\ ret[1].op = "solve"
    /\ ret[1].val = None
    /\ ret[1].before = Some(TRUE)
    /\ installed[1] = Some(0)
    /\ eng_clauses[1] = << <<1, 2>> >>
    /\ state[1] = None

View(h) ==
    <<state[h], cb[h], installed[h], ptr[h],
      eng_live[ptr[h]], eng_clauses[ptr[h]], eng_open[ptr[h]],
      eng_assumptions[ptr[h]], eng_term[ptr[h]], eng_state[ptr[h]],
      eng_model[ptr[h]], eng_failed[ptr[h]], eng_stop[ptr[h]],
      IF cb[h] # None THEN <<cb[h][1] \in allocated, heap[cb[h][1]]>> ELSE <<>> >>

Exists(h) == pc[h] \notin {"unborn", "dropping", "dropped"}

\* C15: two handles that exist at the same time hold different native
\* pointers and different strategy storage; an operation on one handle, its
\* release included, changes nothing that belongs to the other (its status,
\* its strategy, its engine's clauses and registration), and the other's
\* native instance stays live
C15_Independent ==
    /\ [](\A g, h \in Handles :
            (g # h /\ Exists(g) /\ Exists(h)) =>
                /\ ptr[g] # ptr[h]
                /\ eng_live[ptr[h]] = "live"
                /\ (cb[g] # None /\ cb[h] # None) => cb[g] # cb[h])
    /\ [](~useAfterRelease /\ ~danglingPoll)
    /\ [][\A g, h \in Handles :
            (g # h /\ Exists(h) /\ PairOps(g)) => View(h)' = View(h)]_vars

\* handle 1 destroyed after a satisfiable solve while handle 2, with the empty
\* clause and a strategy of its own, is inside the engine
C15_Witness ==
    /\ pc[1] = "dropped"
    /\ state[1] = Some(TRUE)
    /\ pc[2] = "in_engine"
    /\ eng_clauses[ptr[2]] = << <<>> >>
    /\ cb[2] # None
    /\ eng_live[ptr[2]] = "live"
    /\ eng_live[ptr[1]] = "released"

\* a 0 was handed to the engine as a literal of a clause of h
UserZero(h) ==
    \/ \E i \in 1..Len(passed[h]) : 0 \in Range(passed[h][i])
    \/ 0 \in Range(Added(log[h]))

\* the engine holds the clauses h was given, one per call, literals in order
ClausesAsPassed(h) ==
    /\ eng_clauses[ptr[h]] = passed[h]
    /\ pc[h] = "add_loop" => eng_open[ptr[h]] = Added(log[h])
    /\ pc[h] = "idle" => eng_open[ptr[h]] = <<>>

RegisteredToOwnLiveBox(h) ==
    /\ cb[h] # None
    /\ eng_term[ptr[h]].data = cb[h][1]
    /\ cb[h][1] \in allocated

\* C17: the trampoline is invoked only inside an engine solve call; whenever
\* the engine could invoke it, and whenever it does, its context pointer is
\* the address of live strategy storage owned by the same handle; at
\* destruction the engine is released while the storage is still live, and
\* the storage is freed only afterwards
C17_TrampolineSafe ==
    /\ [](~danglingPoll)
    /\ [](\A h \in Handles :
            (InSolve(h) /\ eng_term[ptr[h]].cb) => RegisteredToOwnLiveBox(h))
    /\ [][\A h \in Handles :
            Count(log'[h], "poll") > Count(log[h], "poll") =>
                /\ pc[h] = "in_engine" /\ pc'[h] = "in_engine"
                /\ eng_term[ptr[h]].cb
                /\ RegisteredToOwnLiveBox(h)]_vars
    /\ [](\A h \in Handles :
            pc[h] = "dropping" =>
                /\ eng_live[ptr[h]] = "released"
                /\ cb[h] # None => cb[h][1] \in allocated)
    /\ [][\A h \in Handles :
            (cb[h] # None /\ cb[h][1] \notin allocated' /\ pc'[h] = "dropped") =>
                eng_live[ptr[h]] = "released"]_vars

\* a handle destroyed with its strategy installed, after a solve in which the
\* engine polled it: the engine is released, the storage not yet freed
C17_Witness ==
    /\ pc[1] = "dropping"
    /\ cb[1] # None
    /\ cb[1][1] \in allocated
    /\ eng_live[1] = "released"
    /\ eng_term[1] = [data |-> cb[1][1], cb |-> TRUE]
    /\ lastStatusOp[1] = "solve_unknown"

\* the result state machine as specified: Unset at first and after every
\* add_clause, then what the last solve concluded
Machine(h) ==
    CASE lastStatusOp[h] \in {"new", "add_clause"} -> "Unset"
      [] lastStatusOp[h] = "solve_sat" -> "Satisfiable"
      [] lastStatusOp[h] = "solve_unsat" -> "Unsatisfiable"
      [] lastStatusOp[h] = "solve_unknown" -> "Indeterminate"

\* the mapping from its four states to Option<bool>
Refined(m) ==
    CASE m = "Satisfiable" -> Some(TRUE)
      [] m = "Unsatisfiable" -> Some(FALSE)
      [] m \in {"Unset", "Indeterminate"} -> None

\* a Value and a Failed query with a valid literal go through exactly when the
\* machine is Satisfiable and Unsatisfiable respectively
SameQueriesAccepted(h, lit) ==
    /\ (ret'[h].op = "value" /\ pc[h] = "idle" /\ pc'[h] \in {"idle", "panicked"}
           /\ value(h, lit)) =>
          (ret'[h].ok <=> Machine(h) = "Satisfiable")
    /\ (ret'[h].op = "failed" /\ pc[h] = "idle" /\ pc'[h] \in {"idle", "panicked"}
           /\ failed(h, lit)) =>
          (ret'[h].ok <=> Machine(h) = "Unsatisfiable")

\* C18 as stated: Solver.state is the image of the machine's state at every
\* moment, and the binding lets a Value or Failed query through exactly when
\* the machine does
C18_Refines ==
    /\ [](\A h \in Handles : pc[h] # "unborn" => state[h] = Refined(Machine(h)))
    /\ [][\A h \in Handles : \A lit \in Lits : SameQueriesAccepted(h, lit)]_vars

\* C18 as amended: Solver.state is the image of the machine's state at every
\* moment; in a build with debug assertions the binding lets a Value or
\* Failed query through exactly when the machine does
C18_RefinesInDebug ==
    /\ [](\A h \in Handles : pc[h] # "unborn" => state[h] = Refined(Machine(h)))
    /\ [][debug_assertions =>
            \A h \in Handles : \A lit \in Lits : SameQueriesAccepted(h, lit)]_vars

\* a Value query rejected while the machine is Indeterminate and the status None
C18_Witness ==
    /\ debug_assertions
    /\ ret[1].op = "value"
    /\ ~ret[1].ok
    /\ Machine(1) = "Indeterminate"
    /\ state[1] = None

\* a step of one of the read-only queries of h: it returns or panics
QueryStep(h) ==
    /\ pc[h] = "idle"
    /\ pc'[h] \in {"idle", "panicked"}
    /\ \/ ret'[h].op = "signature" /\ signature(h)
       \/ ret'[h].op = "state" /\ state_query(h)
       \/ ret'[h].op = "value" /\ \E lit \in AnyLits : value(h, lit)
       \/ ret'[h].op = "failed" /\ \E lit \in AnyLits : failed(h, lit)

\* a step of set_callbacks of h
SetCallbacksStep(h) ==
    \/ pc[h] = "idle" /\ pc'[h] \in {"set_cb_register", "set_cb_unregister"}
    \/ pc[h] \in {"set_cb_register", "set_cb_unregister"} /\ pc'[h] = "idle"
    \/ /\ pc[h] = "idle"
       /\ ret'[h].op = "set_callbacks_replace"
       /\ \E t \in Timeouts : set_callbacks_replace(h, t)

\* the status of h and the formula its engine holds stay as they are
StatusAndClausesKept(h) ==
    /\ state'[h] = state[h]
    /\ ptr'[h] = ptr[h]
    /\ eng_clauses'[ptr[h]] = eng_clauses[ptr[h]]
    /\ eng_open'[ptr[h]] = eng_open[ptr[h]]
    /\ eng_assumptions'[ptr[h]] = eng_assumptions[ptr[h]]
    /\ eng_state'[ptr[h]] = eng_state[ptr[h]]
    /\ eng_model'[ptr[h]] = eng_model[ptr[h]]

\* the strategy of h and what the engine has registered stay as they are
StrategyKept(h) ==
    /\ cb'[h] = cb[h]
    /\ heap' = heap
    /\ allocated' = allocated
    /\ eng_term'[ptr[h]] = eng_term[ptr[h]]

\* C19: signature, state, value, failed and set_callbacks leave the status
\* and the engine's clauses as they are; signature, state, value and failed
\* also leave the strategy and the engine's registration as they are; after
\* set_callbacks on a handle whose last solve was Satisfiable a Value query
\* still passes its check and the engine still holds the model
C19_Frame ==
    /\ [][\A h \in Handles :
            /\ (QueryStep(h) \/ SetCallbacksStep(h)) => StatusAndClausesKept(h)
            /\ QueryStep(h) => StrategyKept(h)]_vars
    /\ [](\A h \in Handles :
            (pc[h] = "idle" /\ lastStatusOp[h] = "solve_sat") =>
                (ValuePre(h) /\ eng_state[ptr[h]] = "sat"))

\* the strategy cleared on a handle whose last solve was Satisfiable: the
\* status is still Some(true)
C19_Witness ==
    /\ ret[1].op = "set_callbacks_clear"
    /\ lastStatusOp[1] = "solve_sat"
    /\ state[1] = Some(TRUE)
    /\ eng_state[1] = "sat"
    /\ cb[1] = None

====
